---- MODULE Spec2Model ----
(***************************************************************************)
(* A model of numcodecs_combinators: the CodecStack (stack.py), the        *)
(* instrumented dispatch (observers/abc.py) and the two observers          *)
(* (observers/bytesize.py, observers/walltime.py).                         *)
(*                                                                         *)
(* A pipeline call is a function of its arguments and of the observers'    *)
(* state, so each call is one action; the order of the hook and stage      *)
(* invocations inside a call is kept in the call's event log.              *)
(***************************************************************************)
EXTENDS Integers, Sequences, FiniteSets, TLC

VARIABLES
    stack,      \* the CodecStack under test (a codec record of kind "CodecStack")
    buf,        \* the Buffer argument of the call
    observers,  \* the observers= argument: None or a list of observers
    call,       \* the last call: operation, out argument, result, exception, event log
    bytesize,   \* the ByesizeObserver instance
    walltime,   \* the WalltimeObserver instance
    clock       \* time.perf_counter()

vars == <<stack, buf, observers, call, bytesize, walltime, clock>>

\* Bounds of the model.
MaxLen == 2     \* leaf codecs per stack
MaxByte == 1    \* bytes are 0..MaxByte
MaxTicks == 5   \* hook calls made directly on an observer

(***************************************************************************)
(* Buffers: numpy arrays and bytes objects, at byte level.                 *)
(***************************************************************************)
U8 == [kind |-> "u", size |-> 1, order |-> "|"]
F16LE == [kind |-> "f", size |-> 2, order |-> "<"]
F16BE == [kind |-> "f", size |-> 2, order |-> ">"]
NoDtype == [kind |-> "-", size |-> 1, order |-> "-"]

None == [kind |-> "None", shape |-> <<>>, dtype |-> NoDtype, data |-> <<>>]

ndarray(dtype, shape, data) ==
    [kind |-> "ndarray", shape |-> shape, dtype |-> dtype, data |-> data]

bytes(data) ==
    [kind |-> "bytes", shape |-> <<Len(data)>>, dtype |-> U8, data |-> data]

RECURSIVE Prod(_)
Prod(shape) == IF shape = <<>> THEN 1 ELSE Head(shape) * Prod(Tail(shape))

\* buffer.nbytes (np.asarray(buf).nbytes for a bytes object)
nbytes(b) == Len(b.data)

\* dtype.name: the bit-width name, which does not hold the byte order
dtype_name(dt) == [kind |-> dt.kind, size |-> dt.size]

\* np.dtype(name): the dtype of that name in native byte order
np_dtype(name) ==
    [kind |-> name.kind, size |-> name.size,
     order |-> IF name.size = 1 THEN "|" ELSE "<"]

\* np.empty(shape, dtype): memory that was never written (bytes of -1)
np_empty(shape, dtype) ==
    ndarray(dtype, shape, [i \in 1..(Prod(shape) * dtype.size) |-> -1])

\* numcodecs.compat.ensure_contiguous_ndarray_like(buf, flatten=False)
ensure_contiguous_ndarray_like(b) ==
    IF b.kind = "bytes" THEN ndarray(U8, <<Len(b.data)>>, b.data) ELSE b

\* A value or an exception.
Ok(v) == [val |-> v, raised |-> ""]
Raise(e) == [val |-> None, raised |-> e]

\* numcodecs.compat.ndarray_copy(src, dst)
ndarray_copy(src, dst) ==
    IF dst.kind = "None" THEN Ok(src)
    ELSE IF Len(src.data) # Len(dst.data) THEN Raise("ValueError")
    ELSE Ok(ndarray(dst.dtype, dst.shape, src.data))

\* ndarray.reshape(shape)
reshape(b, shape) ==
    IF b.kind # "ndarray" THEN Raise("AttributeError")
    ELSE IF Prod(b.shape) # Prod(shape) THEN Raise("ValueError")
    ELSE Ok(ndarray(b.dtype, shape, b.data))

(***************************************************************************)
(* Codecs.  A codec is a record [id, kind, codecs]: id is id(codec), the   *)
(* identity of the instance; kind is its class and configuration (what     *)
(* repr(codec) and get_config() show); codecs holds the stages of a        *)
(* CodecStack and is empty for a leaf codec.  The leaf codecs are the two  *)
(* of the driver, BitRound and Zlib (two instances of one configuration),  *)
(* and a lossless codec that keeps shape and dtype.                        *)
(***************************************************************************)
LeafKind == <<"BitRound", "Zlib", "Zlib", "Invert">>

LeafIds == 1..Len(LeafKind)
InnerId == Len(LeafKind) + 1
CodecIds == 1..InnerId

Leaf(i) == [id |-> i, kind |-> LeafKind[i], codecs |-> <<>>]
Leaves == {Leaf(i) : i \in LeafIds}

CodecStack(id, codecs) == [id |-> id, kind |-> "CodecStack", codecs |-> codecs]

\* isinstance(codec, ObservableCodec)
IsObservableCodec(codec) == codec.kind = "CodecStack"

\* BitRound.encode: floats only; the result is the integer array of the same
\* width and byte order with the low-order byte of every element cleared
BitRound_encode(b) ==
    IF b.dtype.kind # "f" THEN Raise("TypeError")
    ELSE LET low == IF b.dtype.order = ">" THEN b.dtype.size - 1 ELSE 0
         IN Ok(ndarray([b.dtype EXCEPT !.kind = "i"], b.shape,
                       [i \in 1..Len(b.data) |->
                           IF (i - 1) % b.dtype.size = low THEN 0 ELSE b.data[i]]))

\* BitRound.decode: the buffer viewed as floats again, copied to out
BitRound_decode(b, out) ==
    LET dt == IF b.dtype.kind = "i" THEN [b.dtype EXCEPT !.kind = "f"] ELSE b.dtype
    IN ndarray_copy(ndarray(dt, b.shape, b.data), out)

\* Zlib.encode: a bytes object, a header and the data
Zlib_encode(b) == Ok(bytes(<<Len(b.data) % (MaxByte + 1)>> \o b.data))

\* Zlib.decode: fails on what is no stream; the data, copied to the
\* flattened out
Zlib_decode(b, out) ==
    IF \/ Len(b.data) = 0
       \/ b.data[1] # (Len(b.data) - 1) % (MaxByte + 1)
    THEN Raise("zlib.error")
    ELSE ndarray_copy(bytes(Tail(b.data)),
                      IF out.kind = "None" THEN out
                      ELSE ndarray(out.dtype, <<Prod(out.shape)>>, out.data))

\* A lossless codec that keeps shape and dtype: every byte complemented
Invert_encode(b) ==
    Ok(ndarray(b.dtype, b.shape, [i \in 1..Len(b.data) |-> MaxByte - b.data[i]]))

Invert_decode(b, out) ==
    ndarray_copy(ndarray(b.dtype, b.shape,
                         [i \in 1..Len(b.data) |-> MaxByte - b.data[i]]), out)

\* codec.encode(buf) of a leaf codec
Codec_encode(codec, b) ==
    CASE codec.kind = "BitRound" -> BitRound_encode(b)
      [] codec.kind = "Zlib" -> Zlib_encode(b)
      [] OTHER -> Invert_encode(b)

\* codec.decode(buf, out=out) of a leaf codec
Codec_decode(codec, b, out) ==
    CASE codec.kind = "BitRound" -> BitRound_decode(b, out)
      [] codec.kind = "Zlib" -> Zlib_decode(b, out)
      [] OTHER -> Invert_decode(b, out)

(***************************************************************************)
(* Observers.  The dictionaries keyed by id(codec) are functions on        *)
(* CodecIds; an absent key holds NoCodec or the empty list (a defaultdict  *)
(* creates a list only to append to it), and the _keys fields hold the     *)
(* keys of the two defaultdicts in insertion order.                        *)
(***************************************************************************)
NoCodec == [id |-> 0, kind |-> "None", codecs |-> <<>>]

\* d[key].append(x) on a defaultdict(list): the keys in insertion order
Inserted(keys, key) ==
    IF \E i \in 1..Len(keys) : keys[i] = key THEN keys ELSE Append(keys, key)

\* Bytesize(pre, post)
Bytesize(pre, post) == [pre |-> pre, post |-> post]

\* ByesizeObserver.__init__
ByesizeObserver_init ==
    [codecs |-> [c \in CodecIds |-> NoCodec],
     encode_sizes |-> [c \in CodecIds |-> <<>>], encode_keys |-> <<>>,
     decode_sizes |-> [c \in CodecIds |-> <<>>], decode_keys |-> <<>>]

\* Mutant of ByesizeObserver.post_encode: the list is assigned the new record.
ByesizeObserver_post_encode_assign(self, codec, b, encoded) ==
    [self EXCEPT
        !.encode_sizes[codec.id] = <<Bytesize(nbytes(b), nbytes(encoded))>>,
        !.encode_keys = Inserted(@, codec.id),
        !.codecs[codec.id] = codec]

\* ByesizeObserver.post_encode
ByesizeObserver_post_encode(self, codec, b, encoded) ==
    [self EXCEPT
        !.encode_sizes[codec.id] = Append(@, Bytesize(nbytes(b), nbytes(encoded))),
        !.encode_keys = Inserted(@, codec.id),
        !.codecs[codec.id] = codec]

\* ByesizeObserver.post_decode
ByesizeObserver_post_decode(self, codec, b, decoded) ==
    [self EXCEPT
        !.decode_sizes[codec.id] = Append(@, Bytesize(nbytes(b), nbytes(decoded))),
        !.decode_keys = Inserted(@, codec.id),
        !.codecs[codec.id] = codec]

\* repr(codec)
RECURSIVE repr(_)
repr(codec) ==
    IF codec.kind = "CodecStack"
    THEN <<"CodecStack">> \o [i \in 1..Len(codec.codecs) |-> repr(codec.codecs[i])]
    ELSE <<codec.kind>>

\* The dict comprehension of results(): {repr(codecs[c]): ts for c, ts in d.items()},
\* keys being the keys of d in insertion order.  A later key of the same repr
\* replaces the value of the earlier one.
RECURSIVE ResultsDict(_, _, _)
ResultsDict(codecs, d, keys) ==
    IF keys = <<>> THEN {}
    ELSE LET c == keys[Len(keys)]
             rest == ResultsDict(codecs, d, SubSeq(keys, 1, Len(keys) - 1))
         IN {e \in rest : e.key # repr(codecs[c])}
                \cup {[key |-> repr(codecs[c]), val |-> d[c]]}

\* ByesizeObserver.results
ByesizeObserver_results(self) ==
    [encode_sizes |-> ResultsDict(self.codecs, self.encode_sizes,
                                  self.encode_keys),
     decode_sizes |-> ResultsDict(self.codecs, self.decode_sizes,
                                  self.decode_keys)]

NoSlot == [set |-> FALSE, codec |-> 0, start |-> 0]
Slot(codec, start) == [set |-> TRUE, codec |-> codec.id, start |-> start]

\* WalltimeObserver.__init__
WalltimeObserver_init ==
    [last_encode |-> NoSlot, last_decode |-> NoSlot,
     codecs |-> [c \in CodecIds |-> NoCodec],
     encode_times |-> [c \in CodecIds |-> <<>>], encode_keys |-> <<>>,
     decode_times |-> [c \in CodecIds |-> <<>>], decode_keys |-> <<>>]

\* The result of a hook: the observer, the clock, and the exception raised.
HookResult(self, now, raised) == [self |-> self, clock |-> now, raised |-> raised]

\* Mutant of WalltimeObserver.pre_encode: a pending encode is not looked for and
\* its start is overwritten.
WalltimeObserver_pre_encode_overwrite(self, codec, now) ==
    IF self.last_decode.set
    THEN HookResult(self, now, "AssertionError")
    ELSE HookResult([self EXCEPT !.last_encode = Slot(codec, now)], now + 1, "")

\* WalltimeObserver.pre_encode; time.perf_counter() reads the clock, which
\* has advanced at the next reading
WalltimeObserver_pre_encode(self, codec, now) ==
    IF self.last_encode.set \/ self.last_decode.set
    THEN HookResult(self, now, "AssertionError")
    ELSE HookResult([self EXCEPT !.last_encode = Slot(codec, now)], now + 1, "")

\* Mutant of WalltimeObserver.post_encode: the codec of the pending encode is
\* not compared, and the duration is recorded for the codec given.
WalltimeObserver_post_encode_any_codec(self, codec, now) ==
    IF ~self.last_encode.set \/ self.last_decode.set
    THEN HookResult(self, now, "AssertionError")
    ELSE HookResult([self EXCEPT
                        !.encode_times[codec.id] = Append(@, now - self.last_encode.start),
                        !.encode_keys = Inserted(@, codec.id),
                        !.codecs[codec.id] = codec,
                        !.last_encode = NoSlot], now + 1, "")

\* WalltimeObserver.post_encode
WalltimeObserver_post_encode(self, codec, now) ==
    IF \/ ~self.last_encode.set
       \/ self.last_encode.codec # codec.id
       \/ self.last_decode.set
    THEN HookResult(self, now, "AssertionError")
    ELSE HookResult([self EXCEPT
                        !.encode_times[codec.id] = Append(@, now - self.last_encode.start),
                        !.encode_keys = Inserted(@, codec.id),
                        !.codecs[codec.id] = codec,
                        !.last_encode = NoSlot], now + 1, "")

\* Mutant of WalltimeObserver.pre_decode: only a pending decode is looked for.
WalltimeObserver_pre_decode_own_slot(self, codec, now) ==
    IF self.last_decode.set
    THEN HookResult(self, now, "AssertionError")
    ELSE HookResult([self EXCEPT !.last_decode = Slot(codec, now)], now + 1, "")

\* WalltimeObserver.pre_decode
WalltimeObserver_pre_decode(self, codec, now) ==
    IF self.last_encode.set \/ self.last_decode.set
    THEN HookResult(self, now, "AssertionError")
    ELSE HookResult([self EXCEPT !.last_decode = Slot(codec, now)], now + 1, "")

\* Mutant of WalltimeObserver.post_decode: the duration is recorded and the
\* slot is left as it is.
WalltimeObserver_post_decode_keep(self, codec, now) ==
    IF \/ self.last_encode.set
       \/ ~self.last_decode.set
       \/ self.last_decode.codec # codec.id
    THEN HookResult(self, now, "AssertionError")
    ELSE HookResult([self EXCEPT
                        !.decode_times[codec.id] = Append(@, now - self.last_decode.start),
                        !.decode_keys = Inserted(@, codec.id),
                        !.codecs[codec.id] = codec], now + 1, "")

\* WalltimeObserver.post_decode
WalltimeObserver_post_decode(self, codec, now) ==
    IF \/ self.last_encode.set
       \/ ~self.last_decode.set
       \/ self.last_decode.codec # codec.id
    THEN HookResult(self, now, "AssertionError")
    ELSE HookResult([self EXCEPT
                        !.decode_times[codec.id] = Append(@, now - self.last_decode.start),
                        !.decode_keys = Inserted(@, codec.id),
                        !.codecs[codec.id] = codec,
                        !.last_decode = NoSlot], now + 1, "")

\* WalltimeObserver.results
WalltimeObserver_results(self) ==
    [encode_times |-> ResultsDict(self.codecs, self.encode_times,
                                  self.encode_keys),
     decode_times |-> ResultsDict(self.codecs, self.decode_times,
                                  self.decode_keys)]

(***************************************************************************)
(* Instrumented dispatch (observers/abc.py).  A call runs on a machine     *)
(* [bs, wt, clock, log, raised]: the two observers, the clock, the events  *)
(* so far and the exception that is propagating ("" when none).  An event  *)
(* is a hook invocation (ev is the hook's name, obs the observer) or the   *)
(* call ("encode", "decode") or return ("encoded", "decoded") of a stage;  *)
(* depth is the nesting depth of the stack that issued it.                 *)
(***************************************************************************)
Event(ev, obs, codec, depth, inp, out, res) ==
    [ev |-> ev, obs |-> obs, codec |-> codec.id, depth |-> depth,
     inp |-> inp, out |-> out, res |-> res]

Logged(m, e) == [m EXCEPT !.log = Append(@, e)]

\* The event of a stage's call, which an exception of a pre-hook prevents
Called(m, e) == IF m.raised # "" THEN m ELSE Logged(m, e)

\* A returned value and the machine after the call; no value when it raised.
Returned(val, m) == [val |-> IF m.raised = "" THEN val ELSE None, m |-> m]

NoObservers == [given |-> FALSE, list |-> <<>>]
ObserverList(list) == [given |-> TRUE, list |-> list]

\* The four hooks of the WalltimeObserver
WalltimeObserver_hook(hook, self, codec, now) ==
    CASE hook = "pre_encode" -> WalltimeObserver_pre_encode(self, codec, now)
      [] hook = "post_encode" -> WalltimeObserver_post_encode(self, codec, now)
      [] hook = "pre_decode" -> WalltimeObserver_pre_decode(self, codec, now)
      [] OTHER -> WalltimeObserver_post_decode(self, codec, now)

\* The four hooks of the ByesizeObserver: it overrides the two post-hooks, and
\* the pre-hooks of CodecObserver do nothing
ByesizeObserver_hook(hook, self, codec, inp, res) ==
    CASE hook = "post_encode" -> ByesizeObserver_post_encode(self, codec, inp, res)
      [] hook = "post_decode" -> ByesizeObserver_post_decode(self, codec, inp, res)
      [] OTHER -> self

WithWalltime(m, w) == [m EXCEPT !.wt = w.self, !.clock = w.clock, !.raised = w.raised]
WithBytesize(m, bs) == [m EXCEPT !.bs = bs]

\* observer.<hook>(codec, buf, ...) for one observer: "B" is the
\* ByesizeObserver, "W" the WalltimeObserver
CallHook(observer, hook, codec, inp, res, m) ==
    IF observer = "W"
    THEN WithWalltime(m, WalltimeObserver_hook(hook, m.wt, codec, m.clock))
    ELSE WithBytesize(m, ByesizeObserver_hook(hook, m.bs, codec, inp, res))

\* Mutant of ForObservers: the observers called from the last to the first.
RECURSIVE ForObservers_reversed(_, _, _, _, _, _, _, _)
ForObservers_reversed(list, hook, codec, inp, out, res, depth, m) ==
    IF list = <<>> \/ m.raised # "" THEN m
    ELSE ForObservers_reversed(SubSeq(list, 1, Len(list) - 1), hook, codec, inp, out, res,
                               depth,
                               CallHook(list[Len(list)], hook, codec, inp, res,
                                        Logged(m, Event(hook, list[Len(list)], codec, depth,
                                                        inp, out, res))))

\* for observer in observers: observer.<hook>(...)
RECURSIVE ForObservers(_, _, _, _, _, _, _, _)
ForObservers(list, hook, codec, inp, out, res, depth, m) ==
    IF list = <<>> \/ m.raised # "" THEN m
    ELSE ForObservers(Tail(list), hook, codec, inp, out, res, depth,
                      CallHook(Head(list), hook, codec, inp, res,
                               Logged(m, Event(hook, Head(list), codec, depth, inp, out, res))))

\* if observers is not None: for observer in observers: ...
Hooks(obs, hook, codec, inp, out, res, depth, m) ==
    IF obs.given THEN ForObservers(obs.list, hook, codec, inp, out, res, depth, m)
    ELSE m

RECURSIVE encode(_, _, _, _, _)
RECURSIVE decode(_, _, _, _, _, _)

\* A leaf codec's call: it takes one tick of the clock
LeafRun(r, m) == [val |-> r.val, m |-> [m EXCEPT !.raised = r.raised, !.clock = @ + 1]]

\* encode_with_observers, lines 89-92: the stage itself
EncodeStage(codec, b, obs, depth, m) ==
    IF m.raised # "" THEN Returned(None, m)
    ELSE IF IsObservableCodec(codec) THEN encode(codec, b, obs, depth + 1, m)
    ELSE LeafRun(Codec_encode(codec, b), m)

\* Mutant of the return of encode_with_observers: with observers, the input
\* of the stage is returned for its output.
EncodePost_input(codec, b, obs, depth, r) ==
    IF r.m.raised # "" THEN Returned(None, r.m)
    ELSE Returned(IF obs.given THEN b ELSE r.val,
                  Hooks(obs, "post_encode", codec, b, None, r.val, depth,
                        Logged(r.m, Event("encoded", "-", codec, depth, b, None, r.val))))

\* encode_with_observers, lines 94-98: the post-hooks and the return
EncodePost(codec, b, obs, depth, r) ==
    IF r.m.raised # "" THEN Returned(None, r.m)
    ELSE Returned(r.val,
                  Hooks(obs, "post_encode", codec, b, None, r.val, depth,
                        Logged(r.m, Event("encoded", "-", codec, depth, b, None, r.val))))

\* encode_with_observers
encode_with_observers(codec, b, obs, depth, m) ==
    EncodePost(codec, b, obs, depth,
        EncodeStage(codec, b, obs, depth,
            Called(Hooks(obs, "pre_encode", codec, b, None, None, depth, m),
                   Event("encode", "-", codec, depth, b, None, None))))

\* decode_with_observers, lines 112-115: the stage itself
DecodeStage(codec, b, out, obs, depth, m) ==
    IF m.raised # "" THEN Returned(None, m)
    ELSE IF IsObservableCodec(codec) THEN decode(codec, b, out, obs, depth + 1, m)
    ELSE LeafRun(Codec_decode(codec, b, out), m)

\* Mutant of the post-hooks of decode_with_observers: they are fired when the
\* stage raised too, before its exception goes on.
DecodePost_finally(codec, b, out, obs, depth, r) ==
    IF r.m.raised = ""
    THEN Returned(r.val,
                  Hooks(obs, "post_decode", codec, b, None, r.val, depth,
                        Logged(r.m, Event("decoded", "-", codec, depth, b, out, r.val))))
    ELSE Returned(None,
                  [Hooks(obs, "post_decode", codec, b, None, b, depth,
                         [r.m EXCEPT !.raised = ""]) EXCEPT !.raised = r.m.raised])

\* decode_with_observers, lines 117-121: the post-hooks and the return
DecodePost(codec, b, out, obs, depth, r) ==
    IF r.m.raised # "" THEN Returned(None, r.m)
    ELSE Returned(r.val,
                  Hooks(obs, "post_decode", codec, b, None, r.val, depth,
                        Logged(r.m, Event("decoded", "-", codec, depth, b, out, r.val))))

\* decode_with_observers
decode_with_observers(codec, b, out, obs, depth, m) ==
    DecodePost(codec, b, out, obs, depth,
        DecodeStage(codec, b, out, obs, depth,
            Called(Hooks(obs, "pre_decode", codec, b, out, None, depth, m),
                   Event("decode", "-", codec, depth, b, out, None))))

(***************************************************************************)
(* CodecStack (stack.py).  The loops carry [val, m]: the buffer so far and *)
(* the machine.                                                            *)
(***************************************************************************)
\* for codec in self: encoded = encode_with_observers(codec, canonical(encoded))
RECURSIVE EncodeLoop(_, _, _, _, _)
EncodeLoop(codecs, i, obs, depth, r) ==
    IF i > Len(codecs) \/ r.m.raised # "" THEN r
    ELSE EncodeLoop(codecs, i + 1, obs, depth,
                    encode_with_observers(codecs[i], ensure_contiguous_ndarray_like(r.val),
                                          obs, depth, r.m))

Reverse(s) == [i \in 1..Len(s) |-> s[Len(s) + 1 - i]]

\* Mutant of encode: the stages applied from right to left.
encode_reversed(self, b, obs, depth, m) ==
    EncodeLoop(Reverse(self.codecs), 1, obs, depth, Returned(b, m))

\* CodecStack.encode
encode(self, b, obs, depth, m) ==
    EncodeLoop(self.codecs, 1, obs, depth, Returned(b, m))

\* for codec in reversed(self): decoded = decode_with_observers(codec,
\* canonical(decoded), out=None)
RECURSIVE DecodeLoop(_, _, _, _, _)
DecodeLoop(codecs, i, obs, depth, r) ==
    IF i < 1 \/ r.m.raised # "" THEN r
    ELSE DecodeLoop(codecs, i - 1, obs, depth,
                    decode_with_observers(codecs[i], ensure_contiguous_ndarray_like(r.val),
                                          None, obs, depth, r.m))

\* The value of a call made last, or its exception
Last(m, c) == Returned(c.val, [m EXCEPT !.raised = c.raised])

\* Mutant of DecodeReturn: out returned as it was given, nothing copied to it.
DecodeReturn_nocopy(out, r) ==
    IF out.kind = "None" THEN r ELSE Returned(out, r.m)

\* return numcodecs.compat.ndarray_copy(decoded, out)
DecodeReturn(out, r) ==
    IF r.m.raised # "" THEN r ELSE Last(r.m, ndarray_copy(r.val, out))

\* Mutant of decode: the stages applied from left to right.
decode_forward(self, b, out, obs, depth, m) ==
    DecodeReturn(out, DecodeLoop(Reverse(self.codecs), Len(self.codecs), obs, depth,
                                 Returned(b, m)))

\* The stage decoded last, given the out buffer
FinalStage_out(codec, out, obs, depth, r) ==
    IF r.m.raised # "" THEN r
    ELSE decode_with_observers(codec, ensure_contiguous_ndarray_like(r.val), out, obs,
                               depth, r.m)

\* Mutant of decode: the stage decoded last is given the caller's out buffer.
decode_out_last(self, b, out, obs, depth, m) ==
    IF self.codecs = <<>> THEN DecodeReturn(out, Returned(b, m))
    ELSE DecodeReturn(out,
             FinalStage_out(self.codecs[1], out, obs, depth,
                 DecodeLoop(Tail(self.codecs), Len(self.codecs) - 1, obs, depth,
                            Returned(b, m))))

\* CodecStack.decode
decode(self, b, out, obs, depth, m) ==
    DecodeReturn(out, DecodeLoop(self.codecs, Len(self.codecs), obs, depth, Returned(b, m)))

\* (encoded.shape, np.dtype(encoded.dtype.name))
Silhouette(encoded) ==
    [shape |-> encoded.shape, dtype |-> np_dtype(dtype_name(encoded.dtype))]

\* The loops of encode_decode carry [val, silhouettes, m].
\* silhouettes.append(...); encoded = canonical(encode_with_observers(...))
Pushed(e, r) ==
    [val |-> ensure_contiguous_ndarray_like(r.val),
     silhouettes |-> Append(e.silhouettes, Silhouette(e.val)),
     m |-> r.m]

RECURSIVE EncodeDecodeEncLoop(_, _, _, _, _)
EncodeDecodeEncLoop(codecs, i, obs, depth, e) ==
    IF i > Len(codecs) \/ e.m.raised # "" THEN e
    ELSE EncodeDecodeEncLoop(codecs, i + 1, obs, depth,
             Pushed(e, encode_with_observers(codecs[i], e.val, obs, depth, e.m)))

\* shape, dtype = silhouettes.pop(); out = np.empty(shape=shape, dtype=dtype)
Top(silhouettes) == silhouettes[Len(silhouettes)]
Pop(silhouettes) == SubSeq(silhouettes, 1, Len(silhouettes) - 1)
OutOf(top) == np_empty(top.shape, top.dtype)

\* decoded = decode_with_observers(...).reshape(shape)
Reshaped(d, r, shape) ==
    IF r.m.raised # "" THEN [val |-> None, silhouettes |-> Pop(d.silhouettes), m |-> r.m]
    ELSE [val |-> reshape(r.val, shape).val, silhouettes |-> Pop(d.silhouettes),
          m |-> [r.m EXCEPT !.raised = reshape(r.val, shape).raised]]

RECURSIVE EncodeDecodeDecLoop(_, _, _, _, _)
EncodeDecodeDecLoop(codecs, i, obs, depth, d) ==
    IF i < 1 \/ d.m.raised # "" THEN d
    ELSE EncodeDecodeDecLoop(codecs, i - 1, obs, depth,
             Reshaped(d, decode_with_observers(codecs[i], d.val, OutOf(Top(d.silhouettes)),
                                               obs, depth, d.m),
                      Top(d.silhouettes).shape))

\* CodecStack.encode_decode
encode_decode(self, b, obs, depth, m) ==
    EncodeDecodeDecLoop(self.codecs, Len(self.codecs), obs, depth,
        EncodeDecodeEncLoop(self.codecs, 1, obs, depth,
            [val |-> ensure_contiguous_ndarray_like(b), silhouettes |-> <<>>, m |-> m]))

(***************************************************************************)
(* CodecStack of the package's __init__.py, a Codec that takes no          *)
(* observers: its encode and decode call the stages' methods themselves.   *)
(* A stage that is a stack is a stack of this class.                       *)
(***************************************************************************)
RECURSIVE CodecStack_encode(_, _, _, _)
RECURSIVE CodecStack_decode(_, _, _, _, _)

\* The return of a stage's method
StageReturn(ev, codec, b, out, depth, r) ==
    IF r.m.raised # "" THEN Returned(None, r.m)
    ELSE Returned(r.val, Logged(r.m, Event(ev, "-", codec, depth, b, out, r.val)))

\* codec.encode(buf)
StageEncode(codec, b, depth, m) ==
    IF codec.kind = "CodecStack" THEN CodecStack_encode(codec, b, depth + 1, m)
    ELSE LeafRun(Codec_encode(codec, b), m)

\* for codec in self: encoded = codec.encode(canonical(encoded))
RECURSIVE CodecStack_EncodeLoop(_, _, _, _)
CodecStack_EncodeLoop(codecs, i, depth, r) ==
    IF i > Len(codecs) \/ r.m.raised # "" THEN r
    ELSE CodecStack_EncodeLoop(codecs, i + 1, depth,
             StageReturn("encoded", codecs[i], ensure_contiguous_ndarray_like(r.val),
                         None, depth,
                 StageEncode(codecs[i], ensure_contiguous_ndarray_like(r.val), depth,
                     Logged(r.m, Event("encode", "-", codecs[i], depth,
                                       ensure_contiguous_ndarray_like(r.val), None, None)))))

\* CodecStack.encode of __init__.py
CodecStack_encode(self, b, depth, m) ==
    CodecStack_EncodeLoop(self.codecs, 1, depth, Returned(b, m))

\* codec.decode(buf, out=None)
StageDecode(codec, b, depth, m) ==
    IF codec.kind = "CodecStack" THEN CodecStack_decode(codec, b, None, depth + 1, m)
    ELSE LeafRun(Codec_decode(codec, b, None), m)

\* for codec in reversed(self): decoded = codec.decode(canonical(decoded), out=None)
RECURSIVE CodecStack_DecodeLoop(_, _, _, _)
CodecStack_DecodeLoop(codecs, i, depth, r) ==
    IF i < 1 \/ r.m.raised # "" THEN r
    ELSE CodecStack_DecodeLoop(codecs, i - 1, depth,
             StageReturn("decoded", codecs[i], ensure_contiguous_ndarray_like(r.val),
                         None, depth,
                 StageDecode(codecs[i], ensure_contiguous_ndarray_like(r.val), depth,
                     Logged(r.m, Event("decode", "-", codecs[i], depth,
                                       ensure_contiguous_ndarray_like(r.val), None, None)))))

\* return numcodecs.compat.ndarray_copy(decoded, out)
CodecStack_DecodeReturn(out, r) ==
    IF r.m.raised # "" THEN r ELSE Last(r.m, ndarray_copy(r.val, out))

\* CodecStack.decode of __init__.py
CodecStack_decode(self, b, out, depth, m) ==
    CodecStack_DecodeReturn(out, CodecStack_DecodeLoop(self.codecs, Len(self.codecs), depth,
                                                       Returned(b, m)))

\* (encoded.shape, encoded.dtype)
CodecStack_Silhouette(encoded) == [shape |-> encoded.shape, dtype |-> encoded.dtype]

\* silhouettes.append(...); encoded = canonical(codec.encode(encoded))
CodecStack_Pushed(e, r) ==
    [val |-> ensure_contiguous_ndarray_like(r.val),
     silhouettes |-> Append(e.silhouettes, CodecStack_Silhouette(e.val)),
     m |-> r.m]

RECURSIVE CodecStack_EncodeDecodeEncLoop(_, _, _, _)
CodecStack_EncodeDecodeEncLoop(codecs, i, depth, e) ==
    IF i > Len(codecs) \/ e.m.raised # "" THEN e
    ELSE CodecStack_EncodeDecodeEncLoop(codecs, i + 1, depth,
             CodecStack_Pushed(e,
                 StageReturn("encoded", codecs[i], e.val, None, depth,
                     StageEncode(codecs[i], e.val, depth,
                         Logged(e.m, Event("encode", "-", codecs[i], depth, e.val,
                                           None, None))))))

\* codec.decode(decoded, out)
StageDecodeOut(codec, b, out, depth, m) ==
    IF codec.kind = "CodecStack" THEN CodecStack_decode(codec, b, out, depth + 1, m)
    ELSE LeafRun(Codec_decode(codec, b, out), m)

\* shape, dtype = silhouettes.pop(); out = np.empty(...);
\* decoded = codec.decode(decoded, out).reshape(shape)
RECURSIVE CodecStack_EncodeDecodeDecLoop(_, _, _, _)
CodecStack_EncodeDecodeDecLoop(codecs, i, depth, d) ==
    IF i < 1 \/ d.m.raised # "" THEN d
    ELSE CodecStack_EncodeDecodeDecLoop(codecs, i - 1, depth,
             Reshaped(d,
                 StageReturn("decoded", codecs[i], d.val, OutOf(Top(d.silhouettes)), depth,
                     StageDecodeOut(codecs[i], d.val, OutOf(Top(d.silhouettes)), depth,
                         Logged(d.m, Event("decode", "-", codecs[i], depth, d.val,
                                           OutOf(Top(d.silhouettes)), None)))),
                 Top(d.silhouettes).shape))

\* The default dtype of np.ndarray(shape)
F64 == [kind |-> "f", size |-> 8, order |-> "<"]

\* np.ndarray(decoded): the array is taken for the shape of a new array, which
\* is not initialized.  An array of floats is no shape (TypeError), an array of
\* integers in one dimension is one, and the one-element rows of an array of
\* integers in two dimensions are taken for integers or refused (TypeError),
\* as the version of numpy has it: outcome says which.
np_ndarray(decoded, outcome) ==
    IF decoded.dtype.kind # "u" THEN Raise("TypeError")
    ELSE IF Len(decoded.shape) = 1 THEN Ok(np_empty(decoded.data, F64))
    ELSE IF Len(decoded.shape) = 2 /\ decoded.shape[2] = 1 /\ outcome = "ndarray"
    THEN Ok(np_empty(decoded.data, F64))
    ELSE Raise("TypeError")

\* type(buf)(decoded)
type_buf(b, decoded, outcome) ==
    IF b.kind = "bytes" THEN Ok(bytes(decoded.data)) ELSE np_ndarray(decoded, outcome)

\* return type(buf)(decoded)
CodecStack_Converted(b, outcome, d) ==
    IF d.m.raised # "" THEN Returned(None, d.m)
    ELSE Last(d.m, type_buf(b, d.val, outcome))

\* CodecStack.encode_decode of __init__.py
CodecStack_encode_decode(self, b, outcome, depth, m) ==
    CodecStack_Converted(b, outcome,
        CodecStack_EncodeDecodeDecLoop(self.codecs, Len(self.codecs), depth,
            CodecStack_EncodeDecodeEncLoop(self.codecs, 1, depth,
                [val |-> ensure_contiguous_ndarray_like(b), silhouettes |-> <<>>,
                 m |-> m])))

(***************************************************************************)
(* The stacks, buffers and observer lists of the calls.                    *)
(***************************************************************************)
SeqsUpTo(S, n) == UNION {[1..k -> S] : k \in 0..n}

\* The stacks of at most MaxLen leaf codecs, each as it is and with its first
\* k stages made an inner CodecStack: CodecStack(CodecStack(a, b), c).
Nested(s, k) ==
    <<CodecStack(InnerId, SubSeq(s, 1, k))>> \o SubSeq(s, k + 1, Len(s))

Stacks ==
    {CodecStack(0, s) : s \in SeqsUpTo(Leaves, MaxLen)}
        \cup UNION {{CodecStack(0, Nested(s, k)) : k \in 0..Len(s)} :
                       s \in SeqsUpTo(Leaves, MaxLen)}

Datas(n) == [1..n -> 0..MaxByte]

Inputs ==
    UNION {{ndarray(F16LE, <<1, 1>>, d), ndarray(F16BE, <<1, 1>>, d),
            ndarray(U8, <<2, 1>>, d), bytes(d)} : d \in Datas(2)}

Zeros(n) == [i \in 1..n |-> 0]

Outs ==
    {None, ndarray(F16LE, <<1, 1>>, Zeros(2)), ndarray(U8, <<2, 1>>, Zeros(2)),
     ndarray(U8, <<3>>, Zeros(3))}

ObserverChoices ==
    {NoObservers, ObserverList(<<>>), ObserverList(<<"B">>), ObserverList(<<"W">>),
     ObserverList(<<"B", "W">>), ObserverList(<<"W", "B">>)}

Idle == [module |-> "-", op |-> "idle", codec |-> 0, out |-> None, result |-> None,
         raised |-> "", log |-> <<>>]

\* The machine a call starts on.
Machine ==
    [bs |-> bytesize, wt |-> walltime, clock |-> clock, log |-> <<>>, raised |-> ""]

\* What a call returned: nothing when it raised
After_result(r) == IF r.m.raised = "" THEN r.val ELSE None

\* The state after a call.
After(module, op, out, r) ==
    /\ call' = [module |-> module, op |-> op, codec |-> 0, out |-> out,
                result |-> IF r.m.raised = "" THEN r.val ELSE None,
                raised |-> r.m.raised, log |-> r.m.log]
    /\ bytesize' = r.m.bs
    /\ walltime' = r.m.wt
    /\ clock' = r.m.clock
    /\ UNCHANGED <<stack, buf, observers>>

Init ==
    /\ stack \in Stacks
    /\ buf \in Inputs
    /\ observers \in ObserverChoices
    /\ call = Idle
    /\ bytesize = ByesizeObserver_init
    /\ walltime = WalltimeObserver_init
    /\ clock = 0

\* stack.encode(buf, observers=observers)
Encode ==
    /\ call.op = "idle"
    /\ After("stack", "encode", None, encode(stack, buf, observers, 0, Machine))

\* stack.decode(buf, out, observers=observers)
Decode ==
    /\ call.op = "idle"
    /\ \E out \in Outs :
          After("stack", "decode", out, decode(stack, buf, out, observers, 0, Machine))

\* stack.encode_decode(buf, observers=observers)
EncodeDecode ==
    /\ call.op = "idle"
    /\ After("stack", "encode_decode", None, encode_decode(stack, buf, observers, 0, Machine))

\* stack.encode(buf) of the CodecStack of __init__.py, which takes no observers
InitEncode ==
    /\ call.op = "idle"
    /\ ~observers.given
    /\ After("__init__", "encode", None, CodecStack_encode(stack, buf, 0, Machine))

\* stack.decode(buf, out) of the CodecStack of __init__.py
InitDecode ==
    /\ call.op = "idle"
    /\ ~observers.given
    /\ \E out \in Outs :
          After("__init__", "decode", out, CodecStack_decode(stack, buf, out, 0, Machine))

\* stack.encode_decode(buf) of the CodecStack of __init__.py
InitEncodeDecode ==
    /\ call.op = "idle"
    /\ ~observers.given
    /\ \E outcome \in {"TypeError", "ndarray"} :
          After("__init__", "encode_decode", None,
                CodecStack_encode_decode(stack, buf, outcome, 0, Machine))

Next == Encode \/ Decode \/ EncodeDecode \/ InitEncode \/ InitDecode \/ InitEncodeDecode

Spec == Init /\ [][Next]_vars

(***************************************************************************)
(* The hooks of a WalltimeObserver called one by one, as a pipeline or a   *)
(* test may call them.                                                     *)
(***************************************************************************)
AfterHook(hook, codec, r) ==
    /\ call' = [module |-> "observers.walltime", op |-> hook, codec |-> codec.id, out |-> None, result |-> None,
                raised |-> r.raised, log |-> <<>>]
    /\ walltime' = r.self
    /\ clock' = r.clock
    /\ UNCHANGED <<stack, buf, observers, bytesize>>

InitHooks ==
    /\ stack = CodecStack(0, <<>>)
    /\ buf = None
    /\ observers = ObserverList(<<"W">>)
    /\ call = Idle
    /\ bytesize = ByesizeObserver_init
    /\ walltime = WalltimeObserver_init
    /\ clock = 0

PreEncode ==
    \E codec \in Leaves :
        /\ clock < MaxTicks
        /\ AfterHook("pre_encode", codec, WalltimeObserver_pre_encode(walltime, codec, clock))

PostEncode ==
    \E codec \in Leaves :
        /\ clock < MaxTicks
        /\ AfterHook("post_encode", codec, WalltimeObserver_post_encode(walltime, codec, clock))

PreDecode ==
    \E codec \in Leaves :
        /\ clock < MaxTicks
        /\ AfterHook("pre_decode", codec, WalltimeObserver_pre_decode(walltime, codec, clock))

PostDecode ==
    \E codec \in Leaves :
        /\ clock < MaxTicks
        /\ AfterHook("post_decode", codec, WalltimeObserver_post_decode(walltime, codec, clock))

NextHooks == PreEncode \/ PostEncode \/ PreDecode \/ PostDecode

SpecHooks == InitHooks /\ [][NextHooks]_vars

(***************************************************************************)
(* Configurations (stack.py, get_config, from_config and __new__).  A      *)
(* config is a record with the codec's id string and its parameters; it    *)
(* does not hold the identity of the instance.  get_codec constructs a new *)
(* instance: next is the id(codec) the next new instance gets.             *)
(***************************************************************************)
\* numcodecs.registry.codec_registry, with CodecStack registered
codec_registry ==
    ("bitround" :> "BitRound") @@ ("zlib" :> "Zlib") @@ ("invert" :> "Invert")
        @@ ("combinators.stack" :> "CodecStack")

\* codec.get_config() of a leaf codec
Codec_get_config(codec) ==
    CASE codec.kind = "BitRound" -> [id |-> "bitround", keepbits |-> 6]
      [] codec.kind = "Zlib" -> [id |-> "zlib", level |-> 7]
      [] OTHER -> [id |-> "invert"]

\* CodecStack.get_config
RECURSIVE get_config(_)
get_config(self) ==
    IF self.kind # "CodecStack" THEN Codec_get_config(self)
    ELSE [id |-> "combinators.stack",
          codecs |-> [i \in 1..Len(self.codecs) |-> get_config(self.codecs[i])]]

\* The first id(codec) of an instance made after the ones of the stack
NextId == InnerId + 1

\* An instance made, the next id and the exception raised
Made(codec, next, raised) == [codec |-> codec, next |-> next, raised |-> raised]

RECURSIVE from_config(_, _)

\* numcodecs.registry.get_codec(config)
get_codec(config, next) ==
    IF config.id \notin DOMAIN codec_registry
    THEN Made(NoCodec, next, "UnknownCodecError")
    ELSE IF codec_registry[config.id] = "CodecStack" THEN from_config(config, next)
    ELSE Made([id |-> next, kind |-> codec_registry[config.id], codecs |-> <<>>],
              next + 1, "")

\* isinstance(codec, Codec)
IsCodec(arg) == "kind" \in DOMAIN arg

\* codec if isinstance(codec, Codec) else numcodecs.registry.get_codec(codec)
Resolve(arg, next) == IF IsCodec(arg) THEN Made(arg, next, "") ELSE get_codec(arg, next)

Resolved(acc, r) ==
    [codecs |-> Append(acc.codecs, r.codec), next |-> r.next, raised |-> r.raised]

\* tuple(... for codec in args)
RECURSIVE NewLoop(_, _, _)
NewLoop(args, i, acc) ==
    IF i > Len(args) \/ acc.raised # "" THEN acc
    ELSE NewLoop(args, i + 1, Resolved(acc, Resolve(args[i], acc.next)))

\* The new stack of the resolved codecs
NewStack(acc) ==
    IF acc.raised # "" THEN Made(NoCodec, acc.next, acc.raised)
    ELSE Made(CodecStack(acc.next, acc.codecs), acc.next + 1, "")

\* CodecStack.__new__(cls, *args)
CodecStack_new(args, next) ==
    NewStack(NewLoop(args, 1, [codecs |-> <<>>, next |-> next, raised |-> ""]))

\* Mutant of from_config: the configs of the stages taken in reverse.
from_config_reversed(config, next) == CodecStack_new(Reverse(config.codecs), next)

\* CodecStack.from_config: cls(*config["codecs"])
from_config(config, next) == CodecStack_new(config.codecs, next)

\* isinstance(other, tuple): a CodecStack is a tuple
IsTuple(other) == other.kind \in {"CodecStack", "tuple"}

\* tuple.__add__(self, other)
tuple_add(self, other) ==
    IF IsTuple(other) THEN Ok(self.codecs \o other.codecs) ELSE Raise("TypeError")

\* tuple.__mul__(self, n) and tuple.__rmul__(self, n)
RECURSIVE tuple_mul(_, _)
tuple_mul(self, n) ==
    IF n <= 0 THEN Ok(<<>>) ELSE Ok(self.codecs \o tuple_mul(self, n - 1).val)

\* CodecStack(*items), unless making the items raised
Stacked(r, next) ==
    IF r.raised # "" THEN Made(NoCodec, next, r.raised) ELSE CodecStack_new(r.val, next)

\* Mutant of CodecStack.__add__: the other operand's stages put first.
add_swapped(self, other, next) ==
    Stacked(IF IsTuple(other) THEN Ok(other.codecs \o self.codecs) ELSE Raise("TypeError"),
            next)

\* CodecStack.__add__
add(self, other, next) == Stacked(tuple_add(self, other), next)

\* CodecStack.__mul__
mul(self, n, next) == Stacked(tuple_mul(self, n), next)

\* CodecStack.__rmul__
rmul(self, n, next) == Stacked(tuple_mul(self, n), next)

(***************************************************************************)
(* The operations that make a stack of a stack, called on their own.       *)
(***************************************************************************)
AfterMaking(op, out, r) ==
    /\ call' = [module |-> "stack", op |-> op, codec |-> 0, out |-> out,
                result |-> r.codec, raised |-> r.raised, log |-> <<>>]
    /\ UNCHANGED <<stack, buf, observers, bytesize, walltime, clock>>

InitConfig ==
    /\ stack \in Stacks
    /\ buf \in Inputs
    /\ observers = NoObservers
    /\ call = Idle
    /\ bytesize = ByesizeObserver_init
    /\ walltime = WalltimeObserver_init
    /\ clock = 0

\* CodecStack.from_config(stack.get_config())
FromConfig ==
    /\ call.op = "idle"
    /\ AfterMaking("from_config", None, from_config(get_config(stack), NextId))

\* The other operand of +: a second stack, a plain tuple or a list of codecs
Operands ==
    {[id |-> NextId, kind |-> k, codecs |-> c] :
        k \in {"CodecStack", "tuple", "list"}, c \in SeqsUpTo(Leaves, 1)}

\* stack + other
Add ==
    /\ call.op = "idle"
    /\ \E other \in Operands :
          AfterMaking("__add__", other, add(stack, other, NextId + 1))

\* stack * n
Mul ==
    /\ call.op = "idle"
    /\ \E n \in -1..MaxLen : AfterMaking("__mul__", n, mul(stack, n, NextId + 1))

\* n * stack
RMul ==
    /\ call.op = "idle"
    /\ \E n \in -1..MaxLen : AfterMaking("__rmul__", n, rmul(stack, n, NextId + 1))

NextConfig == FromConfig \/ Add \/ Mul \/ RMul

SpecConfig == InitConfig /\ [][NextConfig]_vars

(***************************************************************************)
(* A ByesizeObserver used over and over: its post-hooks called one by one, *)
(* and encode_decode of stacks that apply one codec instance k times.      *)
(***************************************************************************)
AfterBytesizeHook(hook, codec, b, res, self) ==
    /\ call' = [module |-> "observers.bytesize", op |-> hook, codec |-> codec.id,
                out |-> None, result |-> None, raised |-> "",
                log |-> <<Event(hook, "B", codec, 0, b, None, res)>>]
    /\ bytesize' = self
    /\ clock' = clock + 1
    /\ UNCHANGED <<stack, buf, observers, walltime>>

InitBytesize ==
    /\ stack = CodecStack(0, <<>>)
    /\ buf = None
    /\ observers = ObserverList(<<"B">>)
    /\ call = Idle
    /\ bytesize = ByesizeObserver_init
    /\ walltime = WalltimeObserver_init
    /\ clock = 0

\* The buffers the hooks are given, before and after: one grows, one shrinks
Sized ==
    {<<bytes(Zeros(1)), bytes(Zeros(MaxLen))>>, <<bytes(Zeros(MaxLen)), bytes(Zeros(1))>>}

\* Two instances of one configuration
Twins == {Leaf(i) : i \in {i \in LeafIds : LeafKind[i] = "Zlib"}}

BytesizePostEncode ==
    \E codec \in Twins, bs \in Sized :
        /\ clock < MaxTicks
        /\ AfterBytesizeHook("post_encode", codec, bs[1], bs[2],
                             ByesizeObserver_post_encode(bytesize, codec, bs[1], bs[2]))

BytesizePostDecode ==
    \E codec \in Twins, bs \in Sized :
        /\ clock < MaxTicks
        /\ AfterBytesizeHook("post_decode", codec, bs[1], bs[2],
                             ByesizeObserver_post_decode(bytesize, codec, bs[1], bs[2]))

\* The state after a call of a stack made for it
AfterRun(self, x, r) ==
    /\ stack' = self
    /\ buf' = x
    /\ call' = [module |-> "stack", op |-> "encode_decode", codec |-> 0, out |-> None,
                result |-> After_result(r), raised |-> r.m.raised, log |-> r.m.log]
    /\ bytesize' = r.m.bs
    /\ clock' = r.m.clock
    /\ UNCHANGED <<observers, walltime>>

\* The stack that applies one instance k times: CodecStack(codec) * k
Repeat(codec, k) == CodecStack(0, [i \in 1..k |-> codec])

\* (CodecStack(codec) * k).encode_decode(x, observers=observers)
Repeated ==
    \E codec \in Twins, k \in 1..MaxLen :
        /\ clock < MaxTicks
        /\ AfterRun(Repeat(codec, k), ndarray(F16LE, <<1, 1>>, Zeros(2)),
                    encode_decode(Repeat(codec, k), ndarray(F16LE, <<1, 1>>, Zeros(2)),
                                  observers, 0, Machine))

NextBytesize == BytesizePostEncode \/ BytesizePostDecode \/ Repeated

SpecBytesize == InitBytesize /\ [][NextBytesize]_vars

(***************************************************************************)
(* Calls in sequence of one flat stack with one WalltimeObserver, as the   *)
(* driver makes them (perf.py): the observer outlives the calls, and the   *)
(* log holds the events of all calls so far.  A call is given the data or  *)
(* what the call before it returned.                                       *)
(***************************************************************************)
FlatStacks == {CodecStack(0, s) : s \in SeqsUpTo(Leaves, MaxLen)}

InitSeq ==
    /\ stack \in FlatStacks
    /\ buf \in Inputs
    /\ observers = ObserverList(<<"W">>)
    /\ call = Idle
    /\ bytesize = ByesizeObserver_init
    /\ walltime = WalltimeObserver_init
    /\ clock = 0

\* The machine the next call of the sequence starts on
SeqMachine == [Machine EXCEPT !.log = call.log]

\* The data, or the result of the call before
SeqInputs == {buf} \cup ({call.result} \ {None})

\* The driver makes calls until an assertion of the observer fails
SeqGoesOn == clock < 2 * MaxTicks /\ call.raised # "AssertionError"

\* stack.encode(x, observers=observers)
SeqEncode ==
    /\ SeqGoesOn
    /\ \E x \in SeqInputs :
          After("stack", "encode", None, encode(stack, x, observers, 0, SeqMachine))

\* stack.decode(x, out, observers=observers)
SeqDecode ==
    /\ SeqGoesOn
    /\ \E x \in SeqInputs, out \in Outs :
          After("stack", "decode", out, decode(stack, x, out, observers, 0, SeqMachine))

\* stack.encode_decode(x, observers=observers)
SeqEncodeDecode ==
    /\ SeqGoesOn
    /\ \E x \in SeqInputs :
          After("stack", "encode_decode", None,
                encode_decode(stack, x, observers, 0, SeqMachine))

NextSeq == SeqEncode \/ SeqDecode \/ SeqEncodeDecode

SpecSeq == InitSeq /\ [][NextSeq]_vars

(***************************************************************************)
(* One WalltimeObserver shared by the runs of flat stacks, and its hooks   *)
(* called by hand once a run has left a call in flight.  A slot gets       *)
(* occupied by a run only: by a stage that raised between the pre-hook and *)
(* the post-hook.  The log is that of the last run.                        *)
(***************************************************************************)
Occupied(self) == self.last_encode.set \/ self.last_decode.set

\* The state after a run of the stack self
AfterRunOf(self, op, out, r) ==
    /\ stack' = self
    /\ call' = [module |-> "stack", op |-> op, codec |-> 0, out |-> out,
                result |-> After_result(r), raised |-> r.m.raised, log |-> r.m.log]
    /\ bytesize' = r.m.bs
    /\ walltime' = r.m.wt
    /\ clock' = r.m.clock
    /\ UNCHANGED <<buf, observers>>

\* The stacks that share the observer: the stack, and one without stages
RunStacks == {stack, CodecStack(0, <<>>)}

\* Runs are made while the clock allows; a run on an observer with a call in
\* flight reads no clock
RunGoesOn == clock < MaxTicks \/ Occupied(walltime)

\* self.encode(x, observers=observers)
RunEncode ==
    /\ RunGoesOn
    /\ \E self \in RunStacks, x \in SeqInputs :
          AfterRunOf(self, "encode", None, encode(self, x, observers, 0, Machine))

\* self.decode(x, observers=observers)
RunDecode ==
    /\ RunGoesOn
    /\ \E self \in RunStacks, x \in SeqInputs :
          AfterRunOf(self, "decode", None, decode(self, x, None, observers, 0, Machine))

\* self.encode_decode(x, observers=observers)
RunEncodeDecode ==
    /\ RunGoesOn
    /\ \E self \in RunStacks, x \in SeqInputs :
          AfterRunOf(self, "encode_decode", None,
                     encode_decode(self, x, observers, 0, Machine))

\* observer.pre_encode(codec, buf) after a run that failed
LaterPreEncode ==
    /\ Occupied(walltime)
    /\ \E codec \in Leaves :
          AfterHook("pre_encode", codec, WalltimeObserver_pre_encode(walltime, codec, clock))

\* observer.post_encode(codec, buf, encoded) after a run that failed
LaterPostEncode ==
    /\ Occupied(walltime)
    /\ \E codec \in Leaves :
          AfterHook("post_encode", codec, WalltimeObserver_post_encode(walltime, codec, clock))

\* observer.pre_decode(codec, buf) after a run that failed
LaterPreDecode ==
    /\ Occupied(walltime)
    /\ \E codec \in Leaves :
          AfterHook("pre_decode", codec, WalltimeObserver_pre_decode(walltime, codec, clock))

\* observer.post_decode(codec, buf, decoded) after a run that failed
LaterPostDecode ==
    /\ Occupied(walltime)
    /\ \E codec \in Leaves :
          AfterHook("post_decode", codec, WalltimeObserver_post_decode(walltime, codec, clock))

NextStuck ==
    \/ RunEncode \/ RunDecode \/ RunEncodeDecode
    \/ LaterPreEncode \/ LaterPostEncode \/ LaterPreDecode \/ LaterPostDecode

SpecStuck == InitSeq /\ [][NextStuck]_vars

(***************************************************************************)
(* Properties                                                              *)
(***************************************************************************)
\* The positions in the call's log of the events ev issued at the given depth.
At(ev, depth) ==
    SelectSeq([i \in 1..Len(call.log) |-> i],
              LAMBDA i : call.log[i].ev = ev /\ call.log[i].depth = depth)

NumStages == Len(stack.codecs)
IsLeaf(codec) == codec.kind # "CodecStack"
Canonical(b) == ensure_contiguous_ndarray_like(b)

\* The stages called at the top level are the first stages of the stack, in
\* the order given by index(k), each called once and after the one before it
\* has returned.
StagesInOrder(calls, rets, index(_)) ==
    /\ Len(calls) <= NumStages
    /\ Len(rets) <= Len(calls) /\ Len(calls) <= Len(rets) + 1
    /\ \A k \in 1..Len(calls) : call.log[calls[k]].codec = stack.codecs[index(k)].id
    /\ \A k \in 1..Len(rets) :
          /\ calls[k] < rets[k]
          /\ call.log[rets[k]].codec = call.log[calls[k]].codec
          /\ k < Len(calls) => rets[k] < calls[k + 1]

\* C1: CodecStack.encode calls each stage's encode once, in the order c1, ..., cn;
\* the first stage receives the canonical input and stage i+1 the canonical output
\* of stage i; a call that returns has called all n stages and returns the output
\* of cn (the input itself when n = 0); a leaf stage's output is its encode of
\* what it received: CodecStack(a, b, c).encode(x) = c.encode(b.encode(a.encode(x))).
C1_EncodeForwardOrder ==
    call.op = "encode" =>
        LET calls == At("encode", 0)
            rets == At("encoded", 0)
        IN /\ StagesInOrder(calls, rets, LAMBDA k : k)
           /\ \A k \in 1..Len(calls) :
                 call.log[calls[k]].inp =
                     Canonical(IF k = 1 THEN buf ELSE call.log[rets[k - 1]].res)
           /\ \A k \in 1..Len(rets) :
                 IsLeaf(stack.codecs[k]) =>
                     call.log[rets[k]].res =
                         Codec_encode(stack.codecs[k], call.log[calls[k]].inp).val
           /\ call.raised = "" =>
                 /\ Len(rets) = NumStages
                 /\ call.result = IF NumStages = 0 THEN buf
                                  ELSE call.log[rets[NumStages]].res

\* A two-stage encode of two different codecs has returned something else
\* than its input.
C1_Witness ==
    /\ call.op = "encode" /\ call.raised = ""
    /\ NumStages = 2
    /\ stack.codecs[1].kind = "Invert" /\ stack.codecs[2].kind = "Zlib"
    /\ call.result.data # buf.data

\* C2: CodecStack.decode calls each stage's decode once, in the order cn, ..., c1;
\* the last stage receives the canonical input and stage i-1 the canonical output
\* of stage i; a call that returns has called all n stages and returns the output
\* of c1, copied to out when out is given:
\* CodecStack(a, b, c).decode(y) = a.decode(b.decode(c.decode(y))).
C2_DecodeReverseOrder ==
    call.op = "decode" =>
        LET calls == At("decode", 0)
            rets == At("decoded", 0)
        IN /\ StagesInOrder(calls, rets, LAMBDA k : NumStages + 1 - k)
           /\ \A k \in 1..Len(calls) :
                 call.log[calls[k]].inp =
                     Canonical(IF k = 1 THEN buf ELSE call.log[rets[k - 1]].res)
           /\ \A k \in 1..Len(rets) :
                 IsLeaf(stack.codecs[NumStages + 1 - k]) =>
                     call.log[rets[k]].res =
                         Codec_decode(stack.codecs[NumStages + 1 - k],
                                      call.log[calls[k]].inp, call.log[calls[k]].out).val
           /\ call.raised = "" =>
                 /\ Len(rets) = NumStages
                 /\ call.result =
                        ndarray_copy(IF NumStages = 0 THEN buf
                                     ELSE call.log[rets[NumStages]].res, call.out).val

\* A two-stage decode of two different codecs has returned, the Zlib stage
\* first.
C2_Witness ==
    /\ call.op = "decode" /\ call.raised = ""
    /\ call.out.kind = "None"
    /\ NumStages = 2
    /\ stack.codecs[1].kind = "Invert" /\ stack.codecs[2].kind = "Zlib"
    /\ call.log[1].codec = stack.codecs[2].id
    /\ call.result.data # buf.data

\* C3: for a non-empty stack and an input on which no stage fails,
\* encode_decode(x) has the shape and the dtype of the canonical x.
C3_ShapeDtypeRestored ==
    (call.module = "stack" /\ call.op = "encode_decode" /\ call.raised = ""
     /\ NumStages > 0) =>
        /\ call.result.shape = Canonical(buf).shape
        /\ call.result.dtype = Canonical(buf).dtype

\* C4: for a stack whose stages are each lossless, decode(encode(x)) is x, and
\* encode_decode(x) is the result of decode(encode(x)): same values, shape
\* and dtype.
CanonicalInputs == {Canonical(x) : x \in Inputs}

RECURSIVE Lossless(_)
Lossless(codec) ==
    IF IsLeaf(codec)
    THEN \A x \in CanonicalInputs :
            /\ Codec_encode(codec, x).raised = ""
            /\ Codec_decode(codec, Canonical(Codec_encode(codec, x).val), None).raised = ""
            /\ Canonical(Codec_decode(codec, Canonical(Codec_encode(codec, x).val),
                                      None).val) = x
    ELSE \A i \in 1..Len(codec.codecs) : Lossless(codec.codecs[i])

\* The machine of a call made with observers that were never used.
Fresh ==
    [bs |-> ByesizeObserver_init, wt |-> WalltimeObserver_init, clock |-> 0,
     log |-> <<>>, raised |-> ""]

\* stack.decode(stack.encode(x)), without observers
DecodeOfEncode(self, x) ==
    decode(self, encode(self, x, NoObservers, 0, Fresh).val, None, NoObservers, 0, Fresh)

C4_RoundTrip ==
    (call.module = "stack" /\ call.op = "encode_decode" /\ Lossless(stack)
     /\ ~observers.given) =>
        /\ DecodeOfEncode(stack, buf).m.raised = ""
        /\ Canonical(DecodeOfEncode(stack, buf).val) = Canonical(buf)
        /\ call.raised = ""
        /\ call.result = Canonical(DecodeOfEncode(stack, buf).val)

\* C5: a stack of no stages calls no stage and no hook, and returns its input
\* unchanged up to canonicalization from encode, decode and encode_decode; a
\* decode given an out buffer of the input's size returns out holding the
\* input's bytes.
C5_EmptyStackIdentity ==
    (call.module = "stack" /\ call.op \in {"encode", "decode", "encode_decode"}
     /\ NumStages = 0) =>
        /\ call.log = <<>>
        /\ bytesize = ByesizeObserver_init
        /\ walltime = WalltimeObserver_init
        /\ call.out.kind = "None" =>
              /\ call.raised = ""
              /\ Canonical(call.result) = Canonical(buf)
        /\ call.out.kind # "None" =>
              /\ call.raised = "" <=> nbytes(call.out) = nbytes(buf)
              /\ call.raised = "" =>
                    call.result = ndarray(call.out.dtype, call.out.shape, buf.data)

\* The empty stack has decoded a bytes object into an out buffer, with
\* observers given.
C5_Witness ==
    /\ call.op = "decode" /\ NumStages = 0 /\ call.raised = ""
    /\ observers.given /\ Len(observers.list) = 2
    /\ buf.kind = "bytes" /\ buf.data # call.out.data
    /\ call.out.kind = "ndarray"

\* The leaf codecs of a stack of stacks, in order: the flattened stack.
RECURSIVE Flattened(_)
Flattened(codecs) ==
    IF codecs = <<>> THEN <<>>
    ELSE (IF IsLeaf(Head(codecs)) THEN <<Head(codecs)>>
          ELSE Flattened(Head(codecs).codecs)) \o Flattened(Tail(codecs))

IsNested == \E i \in 1..NumStages : ~IsLeaf(stack.codecs[i])

\* The call made on the flattened stack instead, with observers never used.
FlatCall ==
    CASE call.op = "encode" ->
            encode(CodecStack(0, Flattened(stack.codecs)), buf, observers, 0, Fresh)
      [] call.op = "decode" ->
            decode(CodecStack(0, Flattened(stack.codecs)), buf, call.out, observers, 0, Fresh)
      [] OTHER ->
            encode_decode(CodecStack(0, Flattened(stack.codecs)), buf, observers, 0, Fresh)

\* The calls of the leaf codecs in a log: codec, direction and arguments.
LeafCalls(log) ==
    SelectSeq(log, LAMBDA e : e.ev \in {"encode", "decode"} /\ e.codec \in LeafIds)

Args(e) == [codec |-> e.codec, ev |-> e.ev, inp |-> e.inp, out |-> e.out]

SameCalls(l1, l2, F(_)) ==
    /\ Len(l1) = Len(l2)
    /\ \A i \in 1..Len(l1) : F(l1[i]) = F(l2[i])

\* C6: a stack of stacks and the flattened stack call the leaf codecs in the
\* same order with the same arguments (input and out buffer) and end alike, with
\* the same result, in encode, decode and encode_decode.
C6_NestedAsFlattened ==
    (call.module = "stack" /\ call.op \in {"encode", "decode", "encode_decode"}
     /\ IsNested) =>
        /\ SameCalls(LeafCalls(call.log), LeafCalls(FlatCall.m.log), Args)
        /\ call.raised = FlatCall.m.raised
        /\ call.raised = "" => call.result = FlatCall.val

\* C7: with a list of observers, every call of a stage is preceded by the
\* pre-hooks of all observers in list order, on the stage's codec and arguments;
\* every return of a stage is followed by the post-hooks of all observers in list
\* order, on the stage's codec, its input and the output it returned; a leaf
\* stage returns or raises right after its call; and no hook fires otherwise:
\* a pre-hook is followed by the stage's call (unless a pre-hook raised) and a
\* post-hook follows the stage's return.
Pre(ev) == IF ev = "encode" THEN "pre_encode" ELSE "pre_decode"
Post(ev) == IF ev = "encoded" THEN "post_encode" ELSE "post_decode"
Return(ev) == IF ev = "encode" THEN "encoded" ELSE "decoded"

IndexOf(list, o) == CHOOSE k \in 1..Len(list) : list[k] = o

C7_HooksAroundStage ==
    (call.op \in {"encode", "decode", "encode_decode"} /\ observers.given) =>
        LET log == call.log
            list == observers.list
            n == Len(observers.list)
        IN \A i \in 1..Len(log) :
              /\ log[i].ev \in {"encode", "decode"} =>
                    /\ i > n
                    /\ \A k \in 1..n :
                          log[i - n - 1 + k] =
                              [log[i] EXCEPT !.ev = Pre(log[i].ev), !.obs = list[k]]
                    /\ (log[i].codec \in LeafIds /\ i < Len(log)) =>
                          /\ log[i + 1].ev = Return(log[i].ev)
                          /\ log[i + 1].codec = log[i].codec
                          /\ log[i + 1].inp = log[i].inp
                    /\ (log[i].codec \in LeafIds /\ i = Len(log)) => call.raised # ""
              /\ log[i].ev \in {"encoded", "decoded"} =>
                    /\ i + n <= Len(log)
                    /\ \A k \in 1..n :
                          log[i + k] =
                              [log[i] EXCEPT !.ev = Post(log[i].ev), !.obs = list[k],
                                             !.out = None]
              /\ log[i].ev \in {"pre_encode", "pre_decode"} =>
                    LET c == i + n - IndexOf(list, log[i].obs) + 1
                    IN IF c <= Len(log)
                       THEN /\ log[c].ev \in {"encode", "decode"}
                            /\ Pre(log[c].ev) = log[i].ev
                            /\ log[c].codec = log[i].codec /\ log[c].depth = log[i].depth
                       ELSE call.raised = "AssertionError"
              /\ log[i].ev \in {"post_encode", "post_decode"} =>
                    LET r == i - IndexOf(list, log[i].obs)
                    IN /\ r >= 1
                       /\ log[r].ev \in {"encoded", "decoded"}
                       /\ Post(log[r].ev) = log[i].ev
                       /\ log[r].codec = log[i].codec /\ log[r].depth = log[i].depth

\* A stage has run between the hooks of two observers: the pre-hooks of the
\* first and the second, the stage's call and return, the post-hooks of the
\* first and the second, the output another buffer than the input.
C7_Witness ==
    /\ call.op = "decode" /\ call.raised = ""
    /\ observers = ObserverList(<<"W", "B">>)
    /\ NumStages = 1
    /\ Len(call.log) = 6
    /\ call.log[1].obs = "W" /\ call.log[5].obs = "W" /\ call.log[6].obs = "B"
    /\ call.log[6].res # call.log[6].inp
    /\ call.log[6].res = call.result

\* The calls of a codec's stage at a depth, and the hooks of an observer for it.
CountOf(ev, o, codec, depth) ==
    Len(SelectSeq(call.log, LAMBDA e : /\ e.ev = ev /\ e.obs = o
                                        /\ e.codec = codec /\ e.depth = depth))

Elements(list) == {list[k] : k \in 1..Len(list)}

\* C8: with a list of observers, encode and decode of a stack that has a
\* CodecStack as a stage pass the list on to it: the hooks raise nothing, and in
\* a call that returns every observer of the list has got one pre-hook and one
\* post-hook for every call of a leaf codec of the inner stack, and one pair for
\* every stage of the outer stack.
C8_ObserversReachLeaves ==
    (call.op \in {"encode", "decode"} /\ observers.given /\ IsNested) =>
        /\ call.raised # "AssertionError"
        /\ call.raised = "" =>
              \A o \in Elements(observers.list), c \in CodecIds, d \in {0, 1} :
                 /\ CountOf(Pre(call.op), o, c, d) = CountOf(call.op, "-", c, d)
                 /\ CountOf(Post(Return(call.op)), o, c, d) = CountOf(call.op, "-", c, d)

\* The number of measurements in a dictionary of results().
RECURSIVE Total(_)
Total(entries) ==
    IF entries = {} THEN 0
    ELSE LET e == CHOOSE x \in entries : TRUE
         IN Len(e.val) + Total(entries \ {e})

Measurements(entries) == UNION {Elements(e.val) : e \in entries}

\* C9: after one encode_decode of a stack of n leaf codecs with a fresh
\* ByesizeObserver, results() holds n encode and n decode measurements, one
\* for each stage, of the sizes of the buffers that entered and left the stage.
C9_ByteSizeCompleteness ==
    (/\ call.op = "encode_decode" /\ call.raised = "" /\ ~IsNested
     /\ observers.given /\ "B" \in Elements(observers.list)) =>
        /\ Total(ByesizeObserver_results(bytesize).encode_sizes) = NumStages
        /\ Total(ByesizeObserver_results(bytesize).decode_sizes) = NumStages
        /\ \A i \in 1..Len(call.log) :
              /\ call.log[i].ev = "encoded" =>
                    Bytesize(nbytes(call.log[i].inp), nbytes(call.log[i].res))
                        \in Measurements(ByesizeObserver_results(bytesize).encode_sizes)
              /\ call.log[i].ev = "decoded" =>
                    Bytesize(nbytes(call.log[i].inp), nbytes(call.log[i].res))
                        \in Measurements(ByesizeObserver_results(bytesize).decode_sizes)

Rejected == call'.raised = "AssertionError" /\ walltime' = walltime

\* C10: the WalltimeObserver rejects with an AssertionError, and records
\* nothing of, a pre-hook when a call of the same direction is pending, a
\* post-hook when no call of its direction is pending, and a post-hook for
\* another codec than the one of the pending call.
C10_WalltimeRejects ==
    [][/\ (call'.op = "pre_encode" /\ walltime.last_encode.set) => Rejected
       /\ (call'.op = "pre_decode" /\ walltime.last_decode.set) => Rejected
       /\ (call'.op = "post_encode" /\ ~walltime.last_encode.set) => Rejected
       /\ (call'.op = "post_decode" /\ ~walltime.last_decode.set) => Rejected
       /\ (call'.op = "post_encode" /\ walltime.last_encode.codec # call'.codec) => Rejected
       /\ (call'.op = "post_decode" /\ walltime.last_decode.codec # call'.codec) => Rejected
      ]_vars

\* A post_decode for another codec than the pending one has been rejected,
\* after an encode was timed.
C10_Witness ==
    /\ call.op = "post_decode" /\ call.raised = "AssertionError"
    /\ walltime.last_decode.set /\ walltime.last_decode.codec # call.codec
    /\ \E c \in CodecIds : walltime.encode_times[c] # <<>>

Configs(codecs) == [i \in 1..Len(codecs) |-> get_config(codecs[i])]

\* stack.encode(x) and stack.decode(x) without observers: value and exception
Outputs(self, x) ==
    <<encode(self, x, NoObservers, 0, Fresh).val,
      encode(self, x, NoObservers, 0, Fresh).m.raised,
      decode(self, x, None, NoObservers, 0, Fresh).val,
      decode(self, x, None, NoObservers, 0, Fresh).m.raised>>

\* C11: from_config(s.get_config()) is a stack of the length of s whose stages
\* have the configurations of the stages of s in the same order, also when s
\* holds stacks; its encode and decode give the outputs of s on the same input.
C11_ConfigRoundTrip ==
    call.op = "from_config" =>
        /\ call.raised = ""
        /\ call.result.kind = "CodecStack"
        /\ Len(call.result.codecs) = Len(stack.codecs)
        /\ Configs(call.result.codecs) = Configs(stack.codecs)
        /\ Outputs(call.result, buf) = Outputs(stack, buf)

\* A stack of an inner stack of one codec and a different second codec has
\* been rebuilt from its config, of new instances.
C11_Witness ==
    /\ call.op = "from_config" /\ call.raised = ""
    /\ NumStages = 2 /\ IsNested
    /\ Len(stack.codecs[1].codecs) = 1
    /\ stack.codecs[1].codecs[1].kind # stack.codecs[2].kind
    /\ call.result.codecs[2].id # stack.codecs[2].id
    /\ call.result.codecs[1].kind = "CodecStack"

\* The sequence tiled n times
RECURSIVE Tiled(_, _)
Tiled(codecs, n) == IF n <= 0 THEN <<>> ELSE codecs \o Tiled(codecs, n - 1)

\* A new stack of the given stages: the same instances, in that order
IsNewStackOf(codecs) ==
    /\ call.raised = ""
    /\ call.result.kind = "CodecStack"
    /\ call.result.id \notin {stack.id, NextId}
    /\ call.result.codecs = codecs

StageEvents(log) == SelectSeq(log, LAMBDA e : e.obs = "-")

\* The call made with observers=None instead
UnobservedCall ==
    CASE call.op = "encode" -> encode(stack, buf, NoObservers, 0, Fresh)
      [] call.op = "decode" -> decode(stack, buf, call.out, NoObservers, 0, Fresh)
      [] OTHER -> encode_decode(stack, buf, NoObservers, 0, Fresh)

\* C13: with a list of observers whose hooks do not fail, encode, decode and
\* encode_decode call the same stages in the same order with the same
\* arguments, get the same outputs of them, and end with the same result or
\* exception as the same call with observers=None.
C13_ObserversTransparent ==
    (/\ call.module = "stack" /\ call.op \in {"encode", "decode", "encode_decode"}
     /\ observers.given /\ call.raised # "AssertionError") =>
        /\ StageEvents(call.log) = StageEvents(UnobservedCall.m.log)
        /\ call.raised = UnobservedCall.m.raised
        /\ call.raised = "" => call.result = UnobservedCall.val

\* An encode_decode of two stages with both observers has returned another
\* buffer than its input.
C13_Witness ==
    /\ call.op = "encode_decode" /\ call.raised = ""
    /\ observers.given /\ Len(observers.list) = 2
    /\ NumStages = 2 /\ stack.codecs[1].kind # stack.codecs[2].kind
    /\ Len(call.log) > 4
    /\ call.result # Canonical(buf)

\* The decode calls of the stages of the stack itself
TopDecodes == At("decode", 0)

\* C14 as stated: in decode with an out buffer, the stage decoded last (the
\* first of the stack) is called with the caller's out buffer, and the stages
\* before it with out=None.
C14_FinalStageGetsOut ==
    (call.op = "decode" /\ call.out.kind # "None") =>
        \A k \in 1..Len(TopDecodes) :
            call.log[TopDecodes[k]].out =
                IF call.log[TopDecodes[k]].codec = stack.codecs[1].id /\ k = NumStages
                THEN call.out ELSE None

\* C14 as amended: decode calls every stage with out=None, the stage decoded
\* last too; a decode that returns with an out buffer given has copied the
\* last stage's output into out and returns out (its shape and dtype, the
\* output's bytes), and without an out buffer returns that output.
C14_AllStagesOutNone ==
    call.op = "decode" =>
        /\ \A k \in 1..Len(TopDecodes) : call.log[TopDecodes[k]].out = None
        /\ (call.raised = "" /\ NumStages > 0) =>
              LET last == call.log[At("decoded", 0)[NumStages]].res
              IN IF call.out.kind = "None" THEN call.result = last
                 ELSE /\ call.result.shape = call.out.shape
                      /\ call.result.dtype = call.out.dtype
                      /\ call.result.data = last.data

\* A decode of two stages with an out buffer has returned out with other
\* bytes than it was given.
C14_Witness ==
    /\ call.op = "decode" /\ call.raised = ""
    /\ call.out.kind = "ndarray" /\ NumStages = 2
    /\ Len(TopDecodes) = 2
    /\ call.result.shape = call.out.shape
    /\ call.result.data # call.out.data

\* C15: in encode_decode the silhouette of the input of stage i is pushed right
\* before the encode of ci and popped right before the decode of ci, last in,
\* first out: the stages are decoded in reverse order after all are encoded,
\* the out buffer passed to the decode of ci has the shape and the dtype of the
\* buffer that was passed to the encode of ci, and a call that returns has
\* decoded every stage it encoded, leaving no silhouette.
C15_SilhouetteLifo ==
    call.op = "encode_decode" =>
        LET encodes == At("encode", 0)
            decodes == At("decode", 0)
        IN /\ Len(decodes) <= Len(encodes)
           /\ Len(decodes) > 0 =>
                 /\ Len(encodes) = NumStages
                 /\ encodes[NumStages] < decodes[1]
           /\ \A k \in 1..Len(decodes) :
                 /\ call.log[decodes[k]].codec = call.log[encodes[NumStages + 1 - k]].codec
                 /\ call.log[decodes[k]].out.kind = "ndarray"
                 /\ call.log[decodes[k]].out.shape =
                        call.log[encodes[NumStages + 1 - k]].inp.shape
                 /\ call.log[decodes[k]].out.dtype =
                        call.log[encodes[NumStages + 1 - k]].inp.dtype
           /\ call.raised = "" => Len(decodes) = NumStages

\* The measurements d holds for the instances keys are reported by results
\* as one entry for each instance, none dropped and none merged.
ReportedApart(codecs, d, keys, results) ==
    /\ Cardinality(results) = Len(keys)
    /\ \A k \in 1..Len(keys) :
          \E e \in results : e.key = repr(codecs[keys[k]]) /\ e.val = d[keys[k]]

\* C16: the observers tell codecs apart by instance, not by configuration: the
\* measurements of two instances of one configuration are kept apart, and
\* results() of the byte-size and of the wall-time observer reports those of
\* every instance observed as an entry of its own.
C16_SeparateByInstance ==
    (call.module = "stack" /\ call.raised = "" /\ observers.given) =>
        /\ ReportedApart(bytesize.codecs, bytesize.encode_sizes, bytesize.encode_keys,
                         ByesizeObserver_results(bytesize).encode_sizes)
        /\ ReportedApart(bytesize.codecs, bytesize.decode_sizes, bytesize.decode_keys,
                         ByesizeObserver_results(bytesize).decode_sizes)
        /\ ReportedApart(walltime.codecs, walltime.encode_times, walltime.encode_keys,
                         WalltimeObserver_results(walltime).encode_times)
        /\ ReportedApart(walltime.codecs, walltime.decode_times, walltime.decode_keys,
                         WalltimeObserver_results(walltime).decode_times)

Accepted == call'.raised = ""

\* C17 as stated: the encode slot and the decode slot of the WalltimeObserver
\* are independent: a pre-hook is accepted unless a call of its own direction
\* is in flight, and a post-hook is accepted when the call in flight of its
\* direction is the one of its codec.
C17_SlotsIndependent ==
    [][/\ (call'.op = "pre_encode" /\ ~walltime.last_encode.set) => Accepted
       /\ (call'.op = "pre_decode" /\ ~walltime.last_decode.set) => Accepted
       /\ (call'.op = "post_encode" /\ walltime.last_encode.set
             /\ walltime.last_encode.codec = call'.codec) => Accepted
       /\ (call'.op = "post_decode" /\ walltime.last_decode.set
             /\ walltime.last_decode.codec = call'.codec) => Accepted
      ]_vars

InFlight == walltime.last_encode.set \/ walltime.last_decode.set

\* C17 as amended: the two slots exclude each other: a pre-hook of either
\* direction is rejected if and only if a call of any direction is in flight,
\* so the two slots are never both occupied; a post-hook is accepted if and
\* only if the call in flight is of its direction and of its codec.
C17_SlotsExclusive ==
    [][/\ call'.op \in {"pre_encode", "pre_decode"} => (Accepted <=> ~InFlight)
       /\ call'.op = "post_encode" =>
             (Accepted <=> (/\ walltime.last_encode.set
                            /\ walltime.last_encode.codec = call'.codec))
       /\ call'.op = "post_decode" =>
             (Accepted <=> (/\ walltime.last_decode.set
                            /\ walltime.last_decode.codec = call'.codec))
       /\ ~(walltime'.last_encode.set /\ walltime'.last_decode.set)
       /\ ~Accepted => call'.raised = "AssertionError" /\ walltime' = walltime
      ]_vars

\* A pre_decode has been rejected while an encode, and no decode, was in
\* flight.
C17_Witness ==
    /\ call.op = "pre_decode" /\ call.raised = "AssertionError"
    /\ walltime.last_encode.set /\ ~walltime.last_decode.set
    /\ walltime.last_encode.codec = call.codec

\* The returns of the stages of a call that are of the instance c
StageReturns(log, ev, c) ==
    Len(SelectSeq(log, LAMBDA e : e.ev = ev /\ e.obs = "-" /\ e.codec = c /\ e.depth = 0))

IsPrefix(s, t) == Len(s) <= Len(t) /\ SubSeq(t, 1, Len(s)) = s

\* C18: the ByesizeObserver only appends and never fails: every hook call and
\* every pipeline call leaves each list of an instance an extension of what it
\* was; a post_encode (post_decode) adds the one record of its buffers' sizes
\* to the encode (decode) list of its instance and nothing else; and an
\* encode_decode of a stack that applies one instance k times adds a record to
\* both lists for every stage that returned, k and k when the call returns.
C18_AppendOnly ==
    [][/\ \A c \in CodecIds :
             /\ IsPrefix(bytesize.encode_sizes[c], bytesize'.encode_sizes[c])
             /\ IsPrefix(bytesize.decode_sizes[c], bytesize'.decode_sizes[c])
       /\ call'.op \in {"post_encode", "post_decode"} =>
             /\ call'.raised = ""
             /\ \A c \in CodecIds :
                   /\ Len(bytesize'.encode_sizes[c]) - Len(bytesize.encode_sizes[c]) =
                          IF call'.op = "post_encode" /\ c = call'.codec THEN 1 ELSE 0
                   /\ Len(bytesize'.decode_sizes[c]) - Len(bytesize.decode_sizes[c]) =
                          IF call'.op = "post_decode" /\ c = call'.codec THEN 1 ELSE 0
             /\ LET list == IF call'.op = "post_encode"
                            THEN bytesize'.encode_sizes[call'.codec]
                            ELSE bytesize'.decode_sizes[call'.codec]
                IN list[Len(list)] = Bytesize(nbytes(call'.log[1].inp),
                                              nbytes(call'.log[1].res))
       /\ call'.op = "encode_decode" =>
             /\ call'.raised # "AssertionError"
             /\ \A c \in CodecIds :
                   /\ Len(bytesize'.encode_sizes[c]) - Len(bytesize.encode_sizes[c]) =
                          StageReturns(call'.log, "encoded", c)
                   /\ Len(bytesize'.decode_sizes[c]) - Len(bytesize.decode_sizes[c]) =
                          StageReturns(call'.log, "decoded", c)
             /\ call'.raised = "" =>
                   /\ StageReturns(call'.log, "encoded", stack'.codecs[1].id) = Len(stack'.codecs)
                   /\ StageReturns(call'.log, "decoded", stack'.codecs[1].id) = Len(stack'.codecs)
      ]_vars

\* A stack that applies one instance twice has run encode_decode with an
\* observer that held records of that instance before, and holds two more of
\* either direction now.
C18_Witness ==
    /\ call.op = "encode_decode" /\ call.raised = ""
    /\ NumStages = 2 /\ stack.codecs[1].id = stack.codecs[2].id
    /\ Len(bytesize.encode_sizes[stack.codecs[1].id]) > 2
    /\ Len(bytesize.decode_sizes[stack.codecs[1].id]) > 2

\* The event of the return of the stage call that the event e is
ReturnOf(e) == IF e.ev = "encode" THEN "encoded" ELSE "decoded"

\* The events after the i-th of the same stack: its stage calls and returns,
\* and the hooks fired for its stages
Siblings(log, i) ==
    {j \in (i + 1)..Len(log) : log[j].depth <= log[i].depth}

\* The calls of stages that did not return: the event that follows in the
\* same stack, if any, is not the return of that stage
Raising(log) ==
    {i \in 1..Len(log) :
        /\ log[i].ev \in {"encode", "decode"}
        /\ \A j \in Siblings(log, i) :
              (\A h \in Siblings(log, i) : j <= h) =>
                  ~(/\ log[j].ev = ReturnOf(log[i]) /\ log[j].codec = log[i].codec
                    /\ log[j].depth = log[i].depth)}

\* The exception of a non-composite stage called as the event e tells
StageError(e) ==
    IF e.ev = "encode" THEN Codec_encode(Leaf(e.codec), e.inp).raised
    ELSE Codec_decode(Leaf(e.codec), e.inp, e.out).raised

\* C19: when the encode or the decode of a stage raises during encode, decode
\* or encode_decode, the call of the stack ends with that same exception;
\* nothing follows the failed call in the stack: the stage is not called
\* again, no stage after it is called, no post-hook is fired for it; and the
\* stack has called no more stages per direction than it has.
C19_ErrorPropagates ==
    call.op \in {"encode", "decode", "encode_decode"} =>
        \A i \in Raising(call.log) :
            /\ call.raised # ""
            /\ call.log[i].codec \in LeafIds => call.raised = StageError(call.log[i])
            /\ Siblings(call.log, i) = {}
            /\ Len(At("encode", 0)) <= NumStages
            /\ Len(At("decode", 0)) <= NumStages

\* The second of two stages of a stack has raised in an encode with both
\* observers, after the first returned and its post-hooks were fired.
C19_Witness ==
    /\ call.module = "stack" /\ call.op = "encode" /\ call.raised # ""
    /\ observers.given /\ Len(observers.list) = 2 /\ NumStages = 2
    /\ Raising(call.log) # {}
    /\ \E i \in Raising(call.log) :
          /\ call.log[i].depth = 0 /\ call.log[i].codec = stack.codecs[2].id
          /\ call.log[i].codec \in LeafIds
          /\ \E j \in 1..(i - 1) : call.log[j].ev = "post_encode"

\* The number of durations in the lists of a dict of the observer
RECURSIVE Recorded(_, _)
Recorded(times, ids) ==
    IF ids = {} THEN 0
    ELSE LET c == CHOOSE x \in ids : TRUE
         IN Len(times[c]) + Recorded(times, ids \ {c})

\* C20: for a stack of n non-composite codecs and one WalltimeObserver, in
\* any sequence of encode, decode and encode_decode calls in which no stage
\* has raised the observer's assertions never fail, and whenever a call
\* returns both slots (last_encode, last_decode) are empty and the observer
\* holds as many encode (decode) durations as stages were called to encode
\* (decode) so far.
C20_WalltimeConsistent ==
    (call.op # "idle" /\ Raising(call.log) = {}) =>
        /\ call.raised # "AssertionError"
        /\ call.raised = "" =>
              /\ ~walltime.last_encode.set /\ ~walltime.last_decode.set
              /\ Recorded(walltime.encode_times, CodecIds) = Len(At("encode", 0))
              /\ Recorded(walltime.decode_times, CodecIds) = Len(At("decode", 0))

\* A stack of two stages has returned from a decode after an encode that
\* returned: the observer holds two durations of either direction.
C20_Witness ==
    /\ call.op = "decode" /\ call.raised = "" /\ NumStages = 2
    /\ Raising(call.log) = {}
    /\ Len(At("encode", 0)) = 2 /\ Len(At("decode", 0)) = 2
    /\ Recorded(walltime.encode_times, CodecIds) = 2
    /\ Recorded(walltime.decode_times, CodecIds) = 2
    /\ ~walltime.last_encode.set /\ ~walltime.last_decode.set

RunOps == {"encode", "decode", "encode_decode"}
PreHooks == {"pre_encode", "pre_decode"}

\* The slot of the direction of the stage call e holds the codec of e
InFlightOf(self, e) ==
    IF e.ev = "encode"
    THEN self.last_encode.set /\ self.last_encode.codec = e.codec
    ELSE self.last_decode.set /\ self.last_decode.codec = e.codec

\* A run in which a stage raised leaves the call of that stage in flight
RaiseLeavesInFlight(c, self) ==
    c.op \in RunOps => \A i \in Raising(c.log) : InFlightOf(self, c.log[i])

\* The call c is the post-hook of the call in flight, for its codec
MatchingPost(c, self) ==
    \/ c.op = "post_encode" /\ self.last_encode.set /\ c.codec = self.last_encode.codec
    \/ c.op = "post_decode" /\ self.last_decode.set /\ c.codec = self.last_decode.codec

\* C21 as stated: a stage that raises between a pre-hook and its post-hook of
\* the WalltimeObserver leaves the slot occupied, and from then on no hook of
\* the observer and no run of a stack changes the slot or the recorded
\* durations, and every pre_encode, every pre_decode and every run with the
\* observer fails with the AssertionError.
C21_OccupiedForever ==
    [][/\ RaiseLeavesInFlight(call', walltime')
       /\ Occupied(walltime) =>
             /\ walltime' = walltime
             /\ call'.op \in PreHooks \cup RunOps => call'.raised = "AssertionError"
      ]_vars

\* C21 as amended: a stage that raises between a pre-hook and its post-hook
\* leaves the slot occupied; the post-hook of that direction called for that
\* codec is accepted, records a duration and clears the slot; until it is
\* called, no hook and no run changes the slot or the recorded durations, and
\* every pre_encode, every pre_decode and every run of a stack that has a
\* stage fails with the AssertionError, while a run of a stack without
\* stages calls no hook and returns.
C21_OccupiedUntilMatchingPost ==
    [][/\ RaiseLeavesInFlight(call', walltime')
       /\ (Occupied(walltime) /\ ~MatchingPost(call', walltime)) =>
             /\ walltime' = walltime
             /\ call'.op \in PreHooks => call'.raised = "AssertionError"
             /\ call'.op \in RunOps =>
                   IF stack'.codecs = <<>> THEN call'.log = <<>>
                   ELSE call'.raised = "AssertionError"
       /\ (Occupied(walltime) /\ MatchingPost(call', walltime)) =>
             /\ call'.raised = "" /\ ~Occupied(walltime')
             /\ Recorded(walltime'.encode_times, CodecIds)
                   + Recorded(walltime'.decode_times, CodecIds)
                 = Recorded(walltime.encode_times, CodecIds)
                   + Recorded(walltime.decode_times, CodecIds) + 1
      ]_vars

\* A run of a stack of two stages has failed at its first pre-hook, on an
\* observer that holds a duration and a call in flight of an earlier run.
C21_Witness ==
    /\ call.op \in RunOps /\ call.raised = "AssertionError"
    /\ NumStages = 2 /\ Len(call.log) = 1 /\ call.log[1].ev \in PreHooks
    /\ Occupied(walltime)
    /\ Recorded(walltime.encode_times, CodecIds)
          + Recorded(walltime.decode_times, CodecIds) > 0

====
